---- MODULE Spec2Model ----
(***************************************************************************)
(* Verification model of mutwo.ext-music:                                  *)
(*   - the indicator collections (playing_indicators.py,                   *)
(*     notation_indicators.py) and their intercepted attribute assignment, *)
(*   - the pitch class name <-> pitch class number codec of WesternPitch, *)
(*   - WesternPitch objects: construction, the two setters, interval       *)
(*     addition and subtraction, construction from a MIDI pitch number.    *)
(*                                                                         *)
(* Specification Spec drives the two indicator collections of one event,   *)
(* next to the playing indicator collection of a second event;             *)
(* specification SpecCodec applies the codec to bounded inputs;            *)
(* specification SpecPitch drives WesternPitch objects.                    *)
(***************************************************************************)
EXTENDS Integers, Sequences, FiniteSets, TLC

VARIABLES heap, pic, nic, pic2, last, nOps, cIn, cOut, cPhase, cTie,
          pitches, pArg, pLast, pOps

vars == <<heap, pic, nic, pic2, last, nOps, cIn, cOut, cPhase, cTie,
          pitches, pArg, pLast, pOps>>

indicatorVars == <<heap, pic, nic, pic2, last, nOps>>

codecVars == <<cIn, cOut, cPhase, cTie>>

pitchVars == <<pitches, pArg, pLast, pOps>>

\* Number of operations applied to the collections in one behaviour.
MaxOps == 2

(***************************************************************************)
(* Python values.  Every value is a record of the same shape so that any   *)
(* two values can be compared.                                             *)
(***************************************************************************)
NoneV == [kind |-> "none", n |-> 0, b |-> FALSE, s |-> ""]

BoolV(x) == [kind |-> "bool", n |-> 0, b |-> x, s |-> ""]

StrV(x) == [kind |-> "str", n |-> 0, b |-> FALSE, s |-> x]

IntV(x) == [kind |-> "int", n |-> x, b |-> FALSE, s |-> ""]

\* A reference to the object with identity id.
RefV(id) == [kind |-> "ref", n |-> id, b |-> FALSE, s |-> ""]

\* Python's bool(value).
bool(v) ==
    CASE v.kind = "none" -> FALSE
      [] v.kind = "bool" -> v.b
      [] v.kind = "str" -> v.s # ""
      [] v.kind = "int" -> v.n # 0
      [] OTHER -> TRUE

(***************************************************************************)
(* The indicator classes: the declared fields and their defaults.          *)
(***************************************************************************)
Tremolo == [cls |-> "Tremolo", fields |-> [n_flags |-> NoneV]]

Articulation == [cls |-> "Articulation", fields |-> [name |-> NoneV]]

Arpeggio == [cls |-> "Arpeggio", fields |-> [direction |-> NoneV]]

Pedal ==
    [cls |-> "Pedal",
     fields |-> [pedal_type |-> NoneV, pedal_activity |-> BoolV(TRUE)]]

StringContactPoint ==
    [cls |-> "StringContactPoint", fields |-> [contact_point |-> NoneV]]

Ornamentation ==
    [cls |-> "Ornamentation",
     fields |-> [direction |-> NoneV, n_times |-> IntV(1)]]

BendAfter ==
    [cls |-> "BendAfter",
     fields |-> [bend_amount |-> NoneV, minimum_length |-> IntV(3),
                 thickness |-> IntV(3)]]

ArtificalHarmonic ==
    [cls |-> "ArtificalHarmonic", fields |-> [n_semitones |-> NoneV]]

PreciseNaturalHarmonic ==
    [cls |-> "PreciseNaturalHarmonic",
     fields |-> [string_pitch |-> NoneV, played_pitch |-> NoneV,
                 harmonic_note_head_style |-> BoolV(TRUE),
                 parenthesize_lower_note_head |-> BoolV(FALSE)]]

Fermata == [cls |-> "Fermata", fields |-> [fermata_type |-> NoneV]]

Hairpin == [cls |-> "Hairpin", fields |-> [symbol |-> NoneV]]

Trill == [cls |-> "Trill", fields |-> [pitch |-> NoneV]]

\* abc.ExplicitPlayingIndicator: a bare flag, off by default.
ExplicitPlayingIndicator ==
    [cls |-> "ExplicitPlayingIndicator", fields |-> [is_active |-> BoolV(FALSE)]]

BarLine == [cls |-> "BarLine", fields |-> [abbreviation |-> NoneV]]

Clef == [cls |-> "Clef", fields |-> [name |-> NoneV]]

\* Ottava with n_octaves defaulting to None like the other indicators.
OttavaNullDefault == [cls |-> "Ottava", fields |-> [n_octaves |-> NoneV]]

Ottava == [cls |-> "Ottava", fields |-> [n_octaves |-> IntV(0)]]

MarginMarkup ==
    [cls |-> "MarginMarkup",
     fields |-> [content |-> NoneV, context |-> StrV("Staff")]]

Markup == [cls |-> "Markup", fields |-> [content |-> NoneV, direction |-> NoneV]]

RehearsalMark == [cls |-> "RehearsalMark", fields |-> [markup |-> NoneV]]

\* The dataclass fields of PlayingIndicatorCollection, in declaration order,
\* each with its default_factory.
PlayingIndicatorCollectionFields ==
    << [name |-> "articulation", factory |-> Articulation],
       [name |-> "artifical_harmonic", factory |-> ArtificalHarmonic],
       [name |-> "arpeggio", factory |-> Arpeggio],
       [name |-> "bartok_pizzicato", factory |-> ExplicitPlayingIndicator],
       [name |-> "bend_after", factory |-> BendAfter],
       [name |-> "breath_mark", factory |-> ExplicitPlayingIndicator],
       [name |-> "duration_line_dashed", factory |-> ExplicitPlayingIndicator],
       [name |-> "duration_line_triller", factory |-> ExplicitPlayingIndicator],
       [name |-> "fermata", factory |-> Fermata],
       [name |-> "glissando", factory |-> ExplicitPlayingIndicator],
       [name |-> "hairpin", factory |-> Hairpin],
       [name |-> "natural_harmonic", factory |-> ExplicitPlayingIndicator],
       [name |-> "laissez_vibrer", factory |-> ExplicitPlayingIndicator],
       [name |-> "ornamentation", factory |-> Ornamentation],
       [name |-> "pedal", factory |-> Pedal],
       [name |-> "prall", factory |-> ExplicitPlayingIndicator],
       [name |-> "precise_natural_harmonic", factory |-> PreciseNaturalHarmonic],
       [name |-> "string_contact_point", factory |-> StringContactPoint],
       [name |-> "tie", factory |-> ExplicitPlayingIndicator],
       [name |-> "tremolo", factory |-> Tremolo],
       [name |-> "trill", factory |-> Trill] >>

\* The dataclass fields of NotationIndicatorCollection, in declaration order.
NotationIndicatorCollectionFields ==
    << [name |-> "bar_line", factory |-> BarLine],
       [name |-> "clef", factory |-> Clef],
       [name |-> "ottava", factory |-> Ottava],
       [name |-> "margin_markup", factory |-> MarginMarkup],
       [name |-> "markup", factory |-> Markup],
       [name |-> "rehearsal_mark", factory |-> RehearsalMark] >>

FieldNames(fieldSeq) == {fieldSeq[i].name : i \in 1..Len(fieldSeq)}

PlayingSlotNames == FieldNames(PlayingIndicatorCollectionFields)

NotationSlotNames == FieldNames(NotationIndicatorCollectionFields)

\* Names that are not dataclass fields of either collection.
UndeclaredNames == {"foo"}

\* The values a client assigns to a collection attribute.
AssignedValues == {BoolV(TRUE), BoolV(FALSE), StrV("x"), NoneV}

(***************************************************************************)
(* Attribute access.  A collection is its attribute dictionary: a function *)
(* from attribute names to values.                                         *)
(***************************************************************************)
\* getattr(self, parameter_name) guarded by "except AttributeError: None".
getattr(c, name) == IF name \in DOMAIN c THEN c[name] ELSE NoneV

\* object.__setattr__: bind the name in the instance dictionary.
object__setattr__(c, name, value) ==
    [x \in DOMAIN c \cup {name} |-> IF x = name THEN value ELSE c[x]]

isinstance(h, v, cls) == v.kind = "ref" /\ h[v.n].cls = cls

\* PlayingIndicatorCollection.__setattr__ with the explicit-indicator branch
\* dropped: every bound attribute counts as frozen.
PlayingSetattrNoSugar(h, c, name, value) ==
    IF getattr(c, name) # NoneV
    THEN [heap |-> h, coll |-> c, result |-> "FrozenInstanceError"]
    ELSE [heap |-> h, coll |-> object__setattr__(c, name, value), result |-> "ok"]

\* PlayingIndicatorCollection.__setattr__ storing the value instead of bool(value).
PlayingSetattrNoCoercion(h, c, name, value) ==
    LET playing_indicator == getattr(c, name) IN
    IF playing_indicator # NoneV
    THEN IF isinstance(h, playing_indicator, "ExplicitPlayingIndicator")
         THEN [heap |-> [h EXCEPT ![playing_indicator.n].fields.is_active = value],
               coll |-> c, result |-> "ok"]
         ELSE [heap |-> h, coll |-> c, result |-> "FrozenInstanceError"]
    ELSE [heap |-> h, coll |-> object__setattr__(c, name, value), result |-> "ok"]

\* PlayingIndicatorCollection.__setattr__ without the frozen check: an implicit
\* slot is overwritten.
PlayingSetattrOverride(h, c, name, value) ==
    LET playing_indicator == getattr(c, name) IN
    IF playing_indicator # NoneV
         /\ isinstance(h, playing_indicator, "ExplicitPlayingIndicator")
    THEN [heap |-> [h EXCEPT ![playing_indicator.n].fields.is_active =
                                 BoolV(bool(value))],
          coll |-> c, result |-> "ok"]
    ELSE [heap |-> h, coll |-> object__setattr__(c, name, value), result |-> "ok"]

\* PlayingIndicatorCollection.__setattr__ writing the flag to a default shared
\* by all explicit indicators instead of the instance of the slot.
PlayingSetattrShared(h, c, name, value) ==
    LET playing_indicator == getattr(c, name) IN
    IF playing_indicator # NoneV
    THEN IF isinstance(h, playing_indicator, "ExplicitPlayingIndicator")
         THEN [heap |-> [id \in DOMAIN h |->
                            IF h[id].cls = "ExplicitPlayingIndicator"
                            THEN [h[id] EXCEPT !.fields.is_active = BoolV(bool(value))]
                            ELSE h[id]],
               coll |-> c, result |-> "ok"]
         ELSE [heap |-> h, coll |-> c, result |-> "FrozenInstanceError"]
    ELSE [heap |-> h, coll |-> object__setattr__(c, name, value), result |-> "ok"]

\* PlayingIndicatorCollection.__setattr__(self, parameter_name, value): the
\* heap, the attribute dictionary and the outcome after the call.
PlayingSetattr(h, c, name, value) ==
    LET playing_indicator == getattr(c, name) IN
    IF playing_indicator # NoneV
    THEN IF isinstance(h, playing_indicator, "ExplicitPlayingIndicator")
         THEN [heap |-> [h EXCEPT ![playing_indicator.n].fields.is_active =
                                      BoolV(bool(value))],
               coll |-> c, result |-> "ok"]
         ELSE [heap |-> h, coll |-> c, result |-> "FrozenInstanceError"]
    ELSE [heap |-> h, coll |-> object__setattr__(c, name, value), result |-> "ok"]

\* NotationIndicatorCollection.__setattr__ without the frozen check.
NotationSetattrUnfrozen(h, c, name, value) ==
    [heap |-> h, coll |-> object__setattr__(c, name, value), result |-> "ok"]

\* NotationIndicatorCollection.__setattr__ letting a boolean through, the way
\* the playing indicator collection does.
NotationSetattrBoolean(h, c, name, value) ==
    LET notation_indicator == getattr(c, name) IN
    IF notation_indicator # NoneV /\ value.kind # "bool"
    THEN [heap |-> h, coll |-> c, result |-> "FrozenInstanceError"]
    ELSE [heap |-> h, coll |-> object__setattr__(c, name, value), result |-> "ok"]

\* NotationIndicatorCollection.__setattr__(self, parameter_name, value).
NotationSetattr(h, c, name, value) ==
    LET notation_indicator == getattr(c, name) IN
    IF notation_indicator # NoneV
    THEN [heap |-> h, coll |-> c, result |-> "FrozenInstanceError"]
    ELSE [heap |-> h, coll |-> object__setattr__(c, name, value), result |-> "ok"]

(***************************************************************************)
(* Construction: the dataclass __init__ calls every default_factory and    *)
(* assigns the new instance through the collection's own __setattr__.      *)
(***************************************************************************)
EmptyHeap == [id \in {} |-> Tremolo]

NoAttributes == [x \in {} |-> NoneV]

\* A heap with one more object; its identity is the next unused number.
Allocate(h, obj) ==
    [id \in DOMAIN h \cup {Cardinality(DOMAIN h) + 1} |->
        IF id \in DOMAIN h THEN h[id] ELSE obj]

RECURSIVE PlayingInit(_, _, _)
PlayingInit(h, c, i) ==
    IF i > Len(PlayingIndicatorCollectionFields)
    THEN [heap |-> h, coll |-> c]
    ELSE LET f == PlayingIndicatorCollectionFields[i]
             h1 == Allocate(h, f.factory)
             r == PlayingSetattr(h1, c, f.name, RefV(Cardinality(DOMAIN h1)))
         IN PlayingInit(r.heap, r.coll, i + 1)

RECURSIVE NotationInit(_, _, _)
NotationInit(h, c, i) ==
    IF i > Len(NotationIndicatorCollectionFields)
    THEN [heap |-> h, coll |-> c]
    ELSE LET f == NotationIndicatorCollectionFields[i]
             h1 == Allocate(h, f.factory)
             r == NotationSetattr(h1, c, f.name, RefV(Cardinality(DOMAIN h1)))
         IN NotationInit(r.heap, r.coll, i + 1)

\* PlayingIndicatorCollection() followed by NotationIndicatorCollection().
PlayingConstructed == PlayingInit(EmptyHeap, NoAttributes, 1)

NotationConstructed == NotationInit(PlayingConstructed.heap, NoAttributes, 1)

\* A second PlayingIndicatorCollection(), made after the two above.
SecondPlayingConstructed == PlayingInit(NotationConstructed.heap, NoAttributes, 1)

(***************************************************************************)
(* Activity of an indicator.                                               *)
(***************************************************************************)
IsExplicit(obj) == obj.cls = "ExplicitPlayingIndicator"

\* Implicit activity computed with any() instead of all().
IsActiveAny(obj) ==
    IF IsExplicit(obj)
    THEN obj.fields.is_active = BoolV(TRUE)
    ELSE \E f \in DOMAIN obj.fields : obj.fields[f] # NoneV

\* indicator.is_active: the stored flag of an explicit indicator; for an
\* implicit one, whether every declared field is defined.
IsActive(obj) ==
    IF IsExplicit(obj)
    THEN obj.fields.is_active = BoolV(TRUE)
    ELSE \A f \in DOMAIN obj.fields : obj.fields[f] # NoneV

\* A defined (non-None) value for a field.
SampleValue(field) ==
    CASE field \in {"n_flags", "n_semitones", "n_times", "n_octaves",
                    "bend_amount", "minimum_length", "thickness"} -> IntV(2)
      [] field \in {"pedal_activity", "harmonic_note_head_style",
                    "parenthesize_lower_note_head"} -> BoolV(FALSE)
      [] field \in {"string_pitch", "played_pitch", "pitch"} -> StrV("c4")
      [] field = "name" -> StrV(".")
      [] OTHER -> StrV("up")

\* The values a client writes to a field of an indicator.
FieldValues(obj, field) ==
    IF IsExplicit(obj)
    THEN {BoolV(TRUE), BoolV(FALSE)}
    ELSE {NoneV, SampleValue(field)}

\* A field assignment that is lost.
SetFieldDropped(h, id, field, value) == h

\* indicator.field = value on a dataclass instance.
SetField(h, id, field, value) == [h EXCEPT ![id].fields[field] = value]

(***************************************************************************)
(* The state machine of one event's two collections.                       *)
(***************************************************************************)
NoOp ==
    [op |-> "init", coll |-> "-", name |-> "-", field |-> "-",
     value |-> NoneV, result |-> "ok"]

NoInput == [kind |-> "none", name |-> <<>>, number |-> 0]

NoOutput == [error |-> "", name |-> <<>>, number |-> 0]

CodecIdle == cIn = NoInput /\ cOut = NoOutput /\ cPhase = "idle" /\ cTie = "lower"

\* No WesternPitch object, no argument and no operation on one.
NoPitches == << >>

NoArgument == [kind |-> "none", name |-> <<>>, n |-> 0, falling |-> FALSE, dev |-> 0]

NoPitch == [pitch_class |-> 0, pitch_class_name |-> <<>>, octave |-> 0, by |-> "-"]

NoPitchOp ==
    [op |-> "init", recv |-> 0, ret |-> 0, mutate |-> TRUE, before |-> NoPitch,
     parsed |-> NoArgument, path |-> "-", warned |-> FALSE, error |-> "",
     octave |-> 0,
     prev |-> [op |-> "init", recv |-> 0, ret |-> 0, before |-> NoPitch,
               path |-> "-"]]

PitchIdle == pitches = NoPitches /\ pArg = NoArgument /\ pLast = NoPitchOp /\ pOps = 0

Init ==
    /\ heap = SecondPlayingConstructed.heap
    /\ pic = PlayingConstructed.coll
    /\ nic = NotationConstructed.coll
    /\ pic2 = SecondPlayingConstructed.coll
    /\ last = NoOp
    /\ nOps = 0
    /\ CodecIdle
    /\ PitchIdle

\* playing_indicator_collection.<name> = value
PlayingAssign ==
    /\ nOps < MaxOps
    /\ \E name \in PlayingSlotNames \cup UndeclaredNames, value \in AssignedValues :
          LET r == PlayingSetattr(heap, pic, name, value) IN
          /\ heap' = r.heap
          /\ pic' = r.coll
          /\ last' = [op |-> "setattr", coll |-> "playing", name |-> name,
                      field |-> "-", value |-> value, result |-> r.result]
    /\ nOps' = nOps + 1
    /\ UNCHANGED <<nic, pic2, codecVars, pitchVars>>

\* notation_indicator_collection.<name> = value
NotationAssign ==
    /\ nOps < MaxOps
    /\ \E name \in NotationSlotNames \cup UndeclaredNames, value \in AssignedValues :
          LET r == NotationSetattr(heap, nic, name, value) IN
          /\ heap' = r.heap
          /\ nic' = r.coll
          /\ last' = [op |-> "setattr", coll |-> "notation", name |-> name,
                      field |-> "-", value |-> value, result |-> r.result]
    /\ nOps' = nOps + 1
    /\ UNCHANGED <<pic, pic2, codecVars, pitchVars>>

\* The collection attributes that hold an indicator.
IndicatorSlots(c) == {x \in DOMAIN c : c[x].kind = "ref"}

\* collection.<slot>.<field> = value
AssignField ==
    /\ nOps < MaxOps
    /\ \E kind \in {"playing", "notation"} :
          LET c == IF kind = "playing" THEN pic ELSE nic IN
          \E slot \in IndicatorSlots(c) :
             LET id == c[slot].n IN
             \E field \in DOMAIN heap[id].fields :
                \E value \in FieldValues(heap[id], field) :
                   /\ heap' = SetField(heap, id, field, value)
                   /\ last' = [op |-> "setfield", coll |-> kind, name |-> slot,
                               field |-> field, value |-> value, result |-> "ok"]
    /\ nOps' = nOps + 1
    /\ UNCHANGED <<pic, nic, pic2, codecVars, pitchVars>>

\* collection.<slot>.is_active = value on an implicit indicator: the property
\* has no setter.
AssignImplicitIsActive ==
    /\ nOps < MaxOps
    /\ \E kind \in {"playing", "notation"} :
          LET c == IF kind = "playing" THEN pic ELSE nic IN
          \E slot \in IndicatorSlots(c), value \in {BoolV(TRUE), BoolV(FALSE)} :
             /\ ~IsExplicit(heap[c[slot].n])
             /\ last' = [op |-> "setfield", coll |-> kind, name |-> slot,
                         field |-> "is_active", value |-> value,
                         result |-> "AttributeError"]
    /\ nOps' = nOps + 1
    /\ UNCHANGED <<heap, pic, nic, pic2, codecVars, pitchVars>>

Next == PlayingAssign \/ NotationAssign \/ AssignField \/ AssignImplicitIsActive

Spec == Init /\ [][Next]_vars

(***************************************************************************)
(* Properties of the indicator collections.                                *)
(***************************************************************************)
\* The indicator a collection attribute refers to.
Obj(c, slot) == heap[c[slot].n]

LastIs(op, coll) == last.op = op /\ last.coll = coll

ExplicitSlotNames ==
    {"bartok_pizzicato", "breath_mark", "duration_line_dashed",
     "duration_line_triller", "glissando", "natural_harmonic",
     "laissez_vibrer", "prall", "tie"}

ImplicitSlotNames ==
    {"articulation", "artifical_harmonic", "arpeggio", "bend_after", "fermata",
     "hairpin", "ornamentation", "pedal", "precise_natural_harmonic",
     "string_contact_point", "tremolo", "trill"}

\* C1: assigning a boolean to an explicit slot of a PlayingIndicatorCollection
\* never raises, and afterwards the slot's is_active is the boolean assigned.
C1_BooleanSugar ==
    (LastIs("setattr", "playing") /\ last.name \in ExplicitSlotNames
        /\ last.value.kind = "bool")
    => (last.result = "ok" /\ (IsActive(Obj(pic, last.name)) <=> last.value.b))

\* tie was switched on and is switched off again by a second assignment.
C1_Witness ==
    /\ LastIs("setattr", "playing") /\ last.name = "tie"
    /\ last.value = BoolV(FALSE) /\ nOps = 2
    /\ last.result = "ok" /\ ~IsActive(Obj(pic, "tie"))
    /\ IsActive(Obj(pic, "prall"))

\* C2: assigning any value, boolean or not, to a slot of a
\* PlayingIndicatorCollection bound to an implicit indicator raises
\* FrozenInstanceError.
C2_ImplicitSlotFrozen ==
    (LastIs("setattr", "playing") /\ last.name \in ImplicitSlotNames)
    => last.result = "FrozenInstanceError"

C2_Witness ==
    /\ LastIs("setattr", "playing") /\ last.name = "articulation"
    /\ last.value = BoolV(TRUE) /\ last.result = "FrozenInstanceError"

\* The declared slots of the collection the last operation addressed.
LastSlotNames ==
    IF last.coll = "playing" THEN PlayingSlotNames ELSE NotationSlotNames

C4_SlotIdentity ==
    /\ \A i \in 1..Len(PlayingIndicatorCollectionFields) :
          LET f == PlayingIndicatorCollectionFields[i] IN
          /\ f.name \in DOMAIN pic
          /\ pic[f.name] = PlayingConstructed.coll[f.name]
          /\ Obj(pic, f.name).cls = f.factory.cls
    /\ \A i \in 1..Len(NotationIndicatorCollectionFields) :
          LET f == NotationIndicatorCollectionFields[i] IN
          /\ f.name \in DOMAIN nic
          /\ nic[f.name] = NotationConstructed.coll[f.name]
          /\ Obj(nic, f.name).cls = f.factory.cls

\* A field of an indicator was mutated and a later assignment to a slot raised.
C4_Witness ==
    /\ nOps = 2 /\ last.op = "setattr"
    /\ last.name \in LastSlotNames /\ last.result = "FrozenInstanceError"
    /\ heap # SecondPlayingConstructed.heap

\* C5: the attribute names of a collection are those of its declared slots in
\* every reachable state.
C5_SlotNamesFixed ==
    /\ DOMAIN pic = PlayingSlotNames
    /\ DOMAIN nic = NotationSlotNames

AllDefined(fields, names) == \A f \in names : fields[f] # NoneV

\* The fields each implicit indicator declares, by slot.
DeclaredFields(slot) ==
    CASE slot = "articulation" -> {"name"}
      [] slot = "artifical_harmonic" -> {"n_semitones"}
      [] slot = "arpeggio" -> {"direction"}
      [] slot = "bend_after" -> {"bend_amount", "minimum_length", "thickness"}
      [] slot = "fermata" -> {"fermata_type"}
      [] slot = "hairpin" -> {"symbol"}
      [] slot = "ornamentation" -> {"direction", "n_times"}
      [] slot = "pedal" -> {"pedal_type", "pedal_activity"}
      [] slot = "precise_natural_harmonic" ->
            {"string_pitch", "played_pitch", "harmonic_note_head_style",
             "parenthesize_lower_note_head"}
      [] slot = "string_contact_point" -> {"contact_point"}
      [] slot = "tremolo" -> {"n_flags"}
      [] slot = "trill" -> {"pitch"}
      [] slot = "bar_line" -> {"abbreviation"}
      [] slot = "clef" -> {"name"}
      [] slot = "ottava" -> {"n_octaves"}
      [] slot = "margin_markup" -> {"content", "context"}
      [] slot = "markup" -> {"content", "direction"}
      [] slot = "rehearsal_mark" -> {"markup"}

\* C7: an implicit indicator is active exactly when each of its declared
\* fields is not None; Articulation turns active when name is set and
\* inactive when name is set back to None.
C7_ImplicitActivity ==
    /\ \A slot \in ImplicitSlotNames :
          IsActive(Obj(pic, slot))
             <=> AllDefined(Obj(pic, slot).fields, DeclaredFields(slot))
    /\ \A slot \in NotationSlotNames :
          IsActive(Obj(nic, slot))
             <=> AllDefined(Obj(nic, slot).fields, DeclaredFields(slot))
    /\ (LastIs("setfield", "playing") /\ last.name = "articulation"
           /\ last.field = "name")
       => (IsActive(Obj(pic, "articulation")) <=> last.value # NoneV)

\* articulation.name was set to "." and set back to None.
C7_Witness ==
    /\ LastIs("setfield", "playing") /\ last.name = "articulation"
    /\ last.field = "name" /\ last.value = NoneV /\ nOps = 2
    /\ ~IsActive(Obj(pic, "articulation"))
    /\ IsActive(Obj(nic, "ottava"))

(***************************************************************************)
(* The pitch class name <-> pitch class number codec of WesternPitch.      *)
(*                                                                         *)
(* A pitch class name is the sequence of its characters.  A pitch class    *)
(* number is counted in cents (hundredths of a semitone), so that the      *)
(* quarter tones are integers; every number of the model is a multiple of  *)
(* 25 cents, which float() represents exactly.                             *)
(***************************************************************************)
CentsPerSemitone == 100

\* Extent of the pitch class numbers tried, in steps of 25 cents below and
\* above the pitch class of c.
StepsBelowC == 8

StepsAboveC == 52

\* music_parameters.constants.DIATONIC_PITCH_NAME_TO_PITCH_CLASS_DICT
DIATONIC_PITCH_NAME_TO_PITCH_CLASS_DICT ==
    << [key |-> "c", value |-> 0 * CentsPerSemitone],
       [key |-> "d", value |-> 2 * CentsPerSemitone],
       [key |-> "e", value |-> 4 * CentsPerSemitone],
       [key |-> "f", value |-> 5 * CentsPerSemitone],
       [key |-> "g", value |-> 7 * CentsPerSemitone],
       [key |-> "a", value |-> 9 * CentsPerSemitone],
       [key |-> "b", value |-> 11 * CentsPerSemitone] >>

\* music_parameters.configurations.ACCIDENTAL_NAME_TO_PITCH_CLASS_MODIFICATION_DICT:
\* natural, sharp, flat, quarter sharp, quarter flat, double sharp, double flat.
ACCIDENTAL_NAME_TO_PITCH_CLASS_MODIFICATION_DICT ==
    << [key |-> <<>>, value |-> 0],
       [key |-> <<"s">>, value |-> CentsPerSemitone],
       [key |-> <<"f">>, value |-> -CentsPerSemitone],
       [key |-> <<"q", "s">>, value |-> CentsPerSemitone \div 2],
       [key |-> <<"q", "f">>, value |-> -(CentsPerSemitone \div 2)],
       [key |-> <<"s", "s">>, value |-> 2 * CentsPerSemitone],
       [key |-> <<"f", "f">>, value |-> -(2 * CentsPerSemitone)] >>

\* music_parameters.configurations.PITCH_CLASS_MODIFICATION_TO_ACCIDENTAL_NAME_DICT:
\* the inverse dictionary.
PITCH_CLASS_MODIFICATION_TO_ACCIDENTAL_NAME_DICT ==
    [i \in 1..Len(ACCIDENTAL_NAME_TO_PITCH_CLASS_MODIFICATION_DICT) |->
        [key |-> ACCIDENTAL_NAME_TO_PITCH_CLASS_MODIFICATION_DICT[i].value,
         value |-> ACCIDENTAL_NAME_TO_PITCH_CLASS_MODIFICATION_DICT[i].key]]

\* Dictionaries are sequences of items in insertion order.
DictKeys(d) == [i \in 1..Len(d) |-> d[i].key]

DictValues(d) == [i \in 1..Len(d) |-> d[i].value]

DictHas(d, k) == \E i \in 1..Len(d) : d[i].key = k

DictGet(d, k) == d[CHOOSE i \in 1..Len(d) : d[i].key = k].value

Abs(x) == IF x < 0 THEN -x ELSE x

\* Whether value a is taken rather than value b as the closest to item.  The
\* order between two equally close values is the one behaviour of
\* find_closest_index the callers do not fix: cTie holds it.
Closer(item, a, b) ==
    \/ Abs(a - item) < Abs(b - item)
    \/ /\ Abs(a - item) = Abs(b - item)
       /\ IF cTie = "lower" THEN a < b ELSE a > b

RECURSIVE find_closest_from(_, _, _, _)
find_closest_from(item, seq, i, best) ==
    IF i > Len(seq)
    THEN best
    ELSE find_closest_from(item, seq, i + 1,
                           IF Closer(item, seq[i], seq[best]) THEN i ELSE best)

\* core_utilities.find_closest_index(item, sequence)
find_closest_index(item, seq) == find_closest_from(item, seq, 2, 1)

\* core_utilities.find_closest_item(item, sequence)
find_closest_item(item, seq) == seq[find_closest_index(item, seq)]

\* _accidental_to_pitch_class_modifications with the KeyError swallowed.
accidental_to_pitch_class_modifications_lenient(accidental) ==
    IF DictHas(ACCIDENTAL_NAME_TO_PITCH_CLASS_MODIFICATION_DICT, accidental)
    THEN [error |-> "",
          value |-> DictGet(ACCIDENTAL_NAME_TO_PITCH_CLASS_MODIFICATION_DICT, accidental)]
    ELSE [error |-> "", value |-> 0]

\* WesternPitch._accidental_to_pitch_class_modifications(accidental)
accidental_to_pitch_class_modifications(accidental) ==
    IF DictHas(ACCIDENTAL_NAME_TO_PITCH_CLASS_MODIFICATION_DICT, accidental)
    THEN [error |-> "",
          value |-> DictGet(ACCIDENTAL_NAME_TO_PITCH_CLASS_MODIFICATION_DICT, accidental)]
    ELSE [error |-> "NotImplementedError", value |-> 0]

\* WesternPitch._pitch_class_name_to_pitch_class(pitch_class_name)
pitch_class_name_to_pitch_class(pitch_class_name) ==
    LET diatonic_pitch_class_name == Head(pitch_class_name)
        accidental == Tail(pitch_class_name)
        diatonic_pitch_class ==
            DictGet(DIATONIC_PITCH_NAME_TO_PITCH_CLASS_DICT, diatonic_pitch_class_name)
        pitch_class_modification == accidental_to_pitch_class_modifications(accidental)
    IN IF pitch_class_modification.error # ""
       THEN [error |-> pitch_class_modification.error, name |-> <<>>, number |-> 0]
       ELSE [error |-> "", name |-> <<>>,
             number |-> diatonic_pitch_class + pitch_class_modification.value]

\* WesternPitch._difference_to_closest_diatonic_pitch_to_accidental(difference)
difference_to_closest_diatonic_pitch_to_accidental(difference) ==
    LET closest_pitch_class_modification ==
            find_closest_item(difference,
                              DictKeys(PITCH_CLASS_MODIFICATION_TO_ACCIDENTAL_NAME_DICT))
    IN DictGet(PITCH_CLASS_MODIFICATION_TO_ACCIDENTAL_NAME_DICT,
               closest_pitch_class_modification)

\* _pitch_class_to_pitch_class_name with the adjustment taken from the
\* diatonic pitch class to the pitch class, the wrong way round.
pitch_class_to_pitch_class_name_flipped(pitch_class) ==
    LET diatonic_pitch_classes == DictValues(DIATONIC_PITCH_NAME_TO_PITCH_CLASS_DICT)
        closest_index == find_closest_index(pitch_class, diatonic_pitch_classes)
    IN <<DictKeys(DIATONIC_PITCH_NAME_TO_PITCH_CLASS_DICT)[closest_index]>>
         \o difference_to_closest_diatonic_pitch_to_accidental(
                diatonic_pitch_classes[closest_index] - pitch_class)

\* WesternPitch._pitch_class_to_pitch_class_name(pitch_class)
pitch_class_to_pitch_class_name(pitch_class) ==
    LET diatonic_pitch_classes == DictValues(DIATONIC_PITCH_NAME_TO_PITCH_CLASS_DICT)
        closest_diatonic_pitch_class_index ==
            find_closest_index(pitch_class, diatonic_pitch_classes)
        diatonic_pitch_class ==
            diatonic_pitch_classes[closest_diatonic_pitch_class_index]
        diatonic_pitch ==
            DictKeys(DIATONIC_PITCH_NAME_TO_PITCH_CLASS_DICT)[
                closest_diatonic_pitch_class_index]
        accidental_adjustments == pitch_class - diatonic_pitch_class
        accidental ==
            difference_to_closest_diatonic_pitch_to_accidental(accidental_adjustments)
    IN <<diatonic_pitch>> \o accidental

(***************************************************************************)
(* The codec applied to bounded inputs.                                    *)
(***************************************************************************)
DiatonicLetters == {"c", "d", "e", "f", "g", "a", "b"}

KnownAccidentals ==
    {ACCIDENTAL_NAME_TO_PITCH_CLASS_MODIFICATION_DICT[i].key :
        i \in 1..Len(ACCIDENTAL_NAME_TO_PITCH_CLASS_MODIFICATION_DICT)}

\* Accidental strings that are no key of the accidental table.
UnknownAccidentals == {<<"x">>, <<"q">>, <<"s", "s", "s">>}

NameInputs ==
    {<<l>> \o a : l \in DiatonicLetters, a \in KnownAccidentals \cup UnknownAccidentals}

NumberInputs == {25 * k : k \in (-StepsBelowC)..StepsAboveC}

InitCodec ==
    /\ heap = SecondPlayingConstructed.heap
    /\ pic = PlayingConstructed.coll
    /\ nic = NotationConstructed.coll
    /\ pic2 = SecondPlayingConstructed.coll
    /\ last = NoOp
    /\ nOps = 0
    /\ cPhase = "start"
    /\ cOut = NoOutput
    /\ cTie \in {"lower", "upper"}
    /\ PitchIdle
    /\ \/ \E name \in NameInputs :
             cIn = [kind |-> "name", name |-> name, number |-> 0]
       \/ \E number \in NumberInputs :
             cIn = [kind |-> "number", name |-> <<>>, number |-> number]

\* _pitch_class_name_to_pitch_class(name)
NameToNumber ==
    /\ cPhase = "start" /\ cIn.kind = "name"
    /\ cOut' = pitch_class_name_to_pitch_class(cIn.name)
    /\ cPhase' = "encoded"
    /\ UNCHANGED <<indicatorVars, cIn, cTie, pitchVars>>

\* _pitch_class_to_pitch_class_name(number)
NumberToName ==
    /\ cPhase = "start" /\ cIn.kind = "number"
    /\ cOut' = [error |-> "", name |-> pitch_class_to_pitch_class_name(cIn.number),
                number |-> cIn.number]
    /\ cPhase' = "decoded"
    /\ UNCHANGED <<indicatorVars, cIn, cTie, pitchVars>>

\* _pitch_class_to_pitch_class_name(_pitch_class_name_to_pitch_class(name))
RoundTrip ==
    /\ cPhase = "encoded" /\ cOut.error = ""
    /\ cOut' = [cOut EXCEPT !.name = pitch_class_to_pitch_class_name(cOut.number)]
    /\ cPhase' = "roundtrip"
    /\ UNCHANGED <<indicatorVars, cIn, cTie, pitchVars>>

NextCodec == NameToNumber \/ NumberToName \/ RoundTrip

SpecCodec == InitCodec /\ [][NextCodec]_vars

(***************************************************************************)
(* Properties of the codec.                                                *)
(***************************************************************************)
\* The chromatic skeleton of the diatonic letters, in semitones.
DiatonicBaseOffset(letter) ==
    CASE letter = "c" -> 0
      [] letter = "d" -> 2
      [] letter = "e" -> 4
      [] letter = "f" -> 5
      [] letter = "g" -> 7
      [] letter = "a" -> 9
      [] letter = "b" -> 11

\* Distance in cents between a pitch class number and a letter's base offset.
LetterDistance(number, letter) ==
    Abs(number - CentsPerSemitone * DiatonicBaseOffset(letter))

\* No other letter is as close to the number as this one.
OnlyClosestLetter(number, letter) ==
    \A other \in DiatonicLetters \ {letter} :
        LetterDistance(number, other) > LetterDistance(number, letter)

\* C8 as stated: for every letter L and accidental A of the table, converting
\* L+A to its number and back returns exactly L+A.
C8_RoundTripExact == cPhase = "roundtrip" => cOut.name = cIn.name

\* C8 as amended: for every letter L and accidental A of the table, converting
\* L+A to its number and back returns a name of the same pitch class number;
\* it returns exactly L+A whenever L is the only diatonic letter closest to
\* that number (every natural name among them), and may otherwise return an
\* enharmonic respelling (df gives cs or df, ess gives fs or gf).
C8_RoundTripEnharmonic ==
    cPhase = "roundtrip" =>
       LET back == pitch_class_name_to_pitch_class(cOut.name) IN
       /\ back.error = "" /\ back.number = cOut.number
       /\ OnlyClosestLetter(cOut.number, Head(cIn.name)) => cOut.name = cIn.name
       /\ Tail(cIn.name) = <<>> => cOut.name = cIn.name

\* df went to the number of one semitone and came back as cs.
C8_Witness ==
    /\ cPhase = "roundtrip" /\ cIn.name = <<"d", "f">>
    /\ cOut.number = CentsPerSemitone /\ cOut.name = <<"c", "s">>

\* C9: converting a name to its number raises the unknown-accidental error when
\* the characters after the first are no accidental of the table; otherwise it
\* returns the letter's base offset (c=0, d=2, e=4, f=5, g=7, a=9, b=11) plus
\* the accidental's offset.
C9_NameToNumber ==
    cPhase = "encoded" =>
       IF Tail(cIn.name) \in KnownAccidentals
       THEN /\ cOut.error = ""
            /\ cOut.number =
                  CentsPerSemitone * DiatonicBaseOffset(Head(cIn.name))
                  + DictGet(ACCIDENTAL_NAME_TO_PITCH_CLASS_MODIFICATION_DICT,
                            Tail(cIn.name))
       ELSE cOut.error = "NotImplementedError"

\* The name c followed by the unknown accidental x was refused.
C9_Witness ==
    /\ cPhase = "encoded" /\ cIn.name = <<"c", "x">>
    /\ cOut.error = "NotImplementedError"

\* C10: converting a number to a name picks the letter closest to the number,
\* the earlier letter of c<d<e<f<g<a<b when two are equally close, then the
\* accidental closest to the residual; 1, 3, 6, 8, 10 give cs, ds, fs, gs, as.
\* The formula holds in the behaviours with cTie = "lower" and fails in those
\* with cTie = "upper" (there 1 gives df).
C10_EarlierLetterOnTies ==
    cPhase = "decoded" =>
       LET letter == Head(cOut.name)
           residual == cIn.number - CentsPerSemitone * DiatonicBaseOffset(letter)
           chosen == DictGet(ACCIDENTAL_NAME_TO_PITCH_CLASS_MODIFICATION_DICT,
                             Tail(cOut.name))
       IN /\ \A other \in DiatonicLetters :
                /\ LetterDistance(cIn.number, other) >= LetterDistance(cIn.number, letter)
                /\ (LetterDistance(cIn.number, other) = LetterDistance(cIn.number, letter)
                      => DiatonicBaseOffset(other) >= DiatonicBaseOffset(letter))
          /\ \A i \in 1..Len(ACCIDENTAL_NAME_TO_PITCH_CLASS_MODIFICATION_DICT) :
                Abs(ACCIDENTAL_NAME_TO_PITCH_CLASS_MODIFICATION_DICT[i].value - residual)
                   >= Abs(chosen - residual)
          /\ cIn.number = 1 * CentsPerSemitone => cOut.name = <<"c", "s">>
          /\ cIn.number = 3 * CentsPerSemitone => cOut.name = <<"d", "s">>
          /\ cIn.number = 6 * CentsPerSemitone => cOut.name = <<"f", "s">>
          /\ cIn.number = 8 * CentsPerSemitone => cOut.name = <<"g", "s">>
          /\ cIn.number = 10 * CentsPerSemitone => cOut.name = <<"a", "s">>

(***************************************************************************)
(* WesternPitch objects.  A pitch is a record of its private attributes    *)
(* _pitch_class (in cents), _pitch_class_name and octave; the field by     *)
(* remembers whether the pair was last set from a name or from a number.   *)
(***************************************************************************)
\* music_parameters.constants.CHROMATIC_PITCH_CLASS_COUNT
CHROMATIC_PITCH_CLASS_COUNT == 12

\* music_parameters.constants.DIATONIC_PITCH_CLASS_COUNT
DIATONIC_PITCH_CLASS_COUNT == 7

\* music_parameters.constants.ASCENDING_DIATONIC_PITCH_NAME_TUPLE
ASCENDING_DIATONIC_PITCH_NAME_TUPLE == <<"c", "d", "e", "f", "g", "a", "b">>

\* The pitch classes of one octave, in cents.
CentsPerOctave == CHROMATIC_PITCH_CLASS_COUNT * CentsPerSemitone

\* Python's a // b and a % b are the floor division and the modulo of TLA+;
\* this is the division of C, which truncates towards zero.
TruncDiv(a, b) == IF a >= 0 THEN a \div b ELSE -((-a) \div b)

NameArg(name) == [NoArgument EXCEPT !.kind = "name", !.name = name]

NumberArg(number) == [NoArgument EXCEPT !.kind = "number", !.n = number]

MidiArg(number) == [NoArgument EXCEPT !.kind = "midi", !.n = number]

\* The helper of the constructor with the accidental of a name left out of
\* the pitch class.
pitch_class_or_pitch_class_name_to_pitch_class_and_pitch_class_name_letter_only(x) ==
    IF x.kind = "number"
    THEN [error |-> "", pitch_class |-> x.n,
          pitch_class_name |-> pitch_class_to_pitch_class_name(x.n), by |-> "number"]
    ELSE IF x.kind = "name"
    THEN [error |-> pitch_class_name_to_pitch_class(x.name).error,
          pitch_class |-> DictGet(DIATONIC_PITCH_NAME_TO_PITCH_CLASS_DICT, Head(x.name)),
          pitch_class_name |-> x.name, by |-> "name"]
    ELSE [error |-> "TypeError", pitch_class |-> 0, pitch_class_name |-> <<>>,
          by |-> "-"]

\* WesternPitch._pitch_class_or_pitch_class_name_to_pitch_class_and_pitch_class_name
pitch_class_or_pitch_class_name_to_pitch_class_and_pitch_class_name(x) ==
    IF x.kind = "number"
    THEN [error |-> "", pitch_class |-> x.n,
          pitch_class_name |-> pitch_class_to_pitch_class_name(x.n), by |-> "number"]
    ELSE IF x.kind = "name"
    THEN LET r == pitch_class_name_to_pitch_class(x.name) IN
         [error |-> r.error, pitch_class |-> r.number,
          pitch_class_name |-> x.name, by |-> "name"]
    ELSE [error |-> "TypeError", pitch_class |-> 0, pitch_class_name |-> <<>>,
          by |-> "-"]

\* WesternPitch.__init__(pitch_class_or_pitch_class_name, octave)
WesternPitch(pitch_class_or_pitch_class_name, octave) ==
    LET r == pitch_class_or_pitch_class_name_to_pitch_class_and_pitch_class_name(
                 pitch_class_or_pitch_class_name)
    IN IF r.error # ""
       THEN [error |-> r.error, pitch |-> NoPitch]
       ELSE [error |-> "",
             pitch |-> [pitch_class |-> r.pitch_class,
                        pitch_class_name |-> r.pitch_class_name,
                        octave |-> octave, by |-> r.by]]

\* The pitch_class_name setter without the update of _pitch_class.
pitch_class_name_setter_stale(p, pitch_class_name) ==
    LET r == pitch_class_name_to_pitch_class(pitch_class_name) IN
    IF r.error # ""
    THEN [error |-> r.error, pitch |-> p]
    ELSE [error |-> "",
          pitch |-> [p EXCEPT !.pitch_class_name = pitch_class_name, !.by = "name"]]

\* WesternPitch.pitch_class_name = pitch_class_name
pitch_class_name_setter(p, pitch_class_name) ==
    LET r == pitch_class_name_to_pitch_class(pitch_class_name) IN
    IF r.error # ""
    THEN [error |-> r.error, pitch |-> p]
    ELSE [error |-> "",
          pitch |-> [p EXCEPT !.pitch_class = r.number,
                              !.pitch_class_name = pitch_class_name,
                              !.by = "name"]]

\* WesternPitch.pitch_class = pitch_class
pitch_class_setter(p, pitch_class) ==
    [p EXCEPT !.pitch_class_name = pitch_class_to_pitch_class_name(pitch_class),
              !.pitch_class = pitch_class,
              !.by = "number"]

\* WesternPitch.diatonic_pitch_class_name
diatonic_pitch_class_name(p) == p.pitch_class_name[1]

\* WesternPitch.accidental_name
accidental_name(p) == Tail(p.pitch_class_name)

\* from_midi_pitch_number with the division of C.
from_midi_pitch_number_truncating(midi_pitch_number) ==
    LET pitch_number == midi_pitch_number - CHROMATIC_PITCH_CLASS_COUNT
        octave_number == TruncDiv(pitch_number, CHROMATIC_PITCH_CLASS_COUNT)
        pitch_class_number ==
            pitch_number - octave_number * CHROMATIC_PITCH_CLASS_COUNT
    IN WesternPitch(NumberArg(pitch_class_number * CentsPerSemitone), octave_number)

\* WesternPitch.from_midi_pitch_number(midi_pitch_number)
from_midi_pitch_number(midi_pitch_number) ==
    LET pitch_number == midi_pitch_number - CHROMATIC_PITCH_CLASS_COUNT
        pitch_class_number == pitch_number % CHROMATIC_PITCH_CLASS_COUNT
        octave_number == pitch_number \div CHROMATIC_PITCH_CLASS_COUNT
    IN WesternPitch(NumberArg(pitch_class_number * CentsPerSemitone), octave_number)

(***************************************************************************)
(* WesternPitchInterval, the compensation table and the arithmetic of the  *)
(* base class EqualDividedOctavePitch.                                     *)
(***************************************************************************)
\* A WesternPitchInterval: interval_type, is_interval_falling and
\* interval_quality_cent_deviation.
IntervalArg(interval_type, is_interval_falling, cent_deviation) ==
    [NoArgument EXCEPT !.kind = "interval", !.n = interval_type,
                       !.falling = is_interval_falling, !.dev = cent_deviation]

\* Real numbers are counted in this many parts of a semitone, a tenth of the
\* 0.001 that _parse_pitch_interval tells microtonal numbers by.
UnitsPerSemitone == 10000

RealArg(units) == [NoArgument EXCEPT !.kind = "real", !.n = units]

StrArg(string) == [NoArgument EXCEPT !.kind = "str", !.name = string]

\* The largest interval_type tried: a ninth.
MaxIntervalType == 9

QualityDeviations == {-CentsPerSemitone, 0, CentsPerSemitone}

Intervals ==
    {IntervalArg(t, f, d) : t \in 1..MaxIntervalType, f \in BOOLEAN,
                            d \in QualityDeviations}

\* The size in cents of the interval of this type with its default quality
\* (perfect or major).
DefaultIntervalCents(interval_type) ==
    LET steps == interval_type - 1 IN
    CentsPerOctave * (steps \div DIATONIC_PITCH_CLASS_COUNT)
    + DictValues(DIATONIC_PITCH_NAME_TO_PITCH_CLASS_DICT)[
          (steps % DIATONIC_PITCH_CLASS_COUNT) + 1]

\* WesternPitchInterval.interval, in cents.
interval(i) ==
    LET size == DefaultIntervalCents(i.n) + i.dev IN
    IF i.falling THEN -size ELSE size

\* WesternPitchInterval.inverse_direction(mutate=False)
inverse_direction(i) == [i EXCEPT !.falling = ~i.falling]

\* Python's round(number): to the nearest integer, a half to the even one.
round(units) ==
    LET q == units \div UnitsPerSemitone
        r == units % UnitsPerSemitone
    IN IF 2 * r < UnitsPerSemitone THEN q
       ELSE IF 2 * r > UnitsPerSemitone THEN q + 1
       ELSE IF q % 2 = 0 THEN q ELSE q + 1

\* The interval names tried.
IntervalNames ==
    << [key |-> <<"M", "3">>, value |-> IntervalArg(3, FALSE, 0)],
       [key |-> <<"m", "3">>, value |-> IntervalArg(3, FALSE, -CentsPerSemitone)],
       [key |-> <<"p", "5">>, value |-> IntervalArg(5, FALSE, 0)] >>

\* WesternPitchInterval(number or name): the intervals the constructor may
\* build, none when it raises.  A number is spelled as one of the intervals of
\* that many semitones.
WesternPitchInterval(x) ==
    IF x.kind = "real"
    THEN {i \in Intervals :
             /\ interval(i) = round(x.n) * CentsPerSemitone
             /\ i.falling = (x.n < 0)}
    ELSE IF x.kind = "str" /\ DictHas(IntervalNames, x.name)
    THEN {DictGet(IntervalNames, x.name)}
    ELSE {}

\* The position of a diatonic pitch class name in the ascending tuple,
\* counted from 0: tuple.index(name).
index(tuple, name) == (CHOOSE k \in 1..Len(tuple) : tuple[k] = name) - 1

\* music_parameters.constants.
\* DIATONIC_PITCH_CLASS_NAME_PAIR_TO_COMPENSATION_IN_CENTS_DICT: for the pair
\* (lower name, upper name), what the interval between the two diatonic pitch
\* classes lacks to the default quality of its type.
DIATONIC_PITCH_CLASS_NAME_PAIR_TO_COMPENSATION_IN_CENTS_DICT ==
    [pair \in DiatonicLetters \X DiatonicLetters |->
        LET steps == (index(ASCENDING_DIATONIC_PITCH_NAME_TUPLE, pair[2])
                      - index(ASCENDING_DIATONIC_PITCH_NAME_TUPLE, pair[1]))
                     % DIATONIC_PITCH_CLASS_COUNT
            distance == (DictGet(DIATONIC_PITCH_NAME_TO_PITCH_CLASS_DICT, pair[2])
                         - DictGet(DIATONIC_PITCH_NAME_TO_PITCH_CLASS_DICT, pair[1]))
                        % CentsPerOctave
        IN DefaultIntervalCents(steps + 1) - distance]

\* EqualDividedOctavePitch.add(pitch_interval) of the base class, the
\* interval in cents: the pitch class is set through the property of
\* WesternPitch, the octaves it crosses go to octave.
EqualDividedOctavePitch_add(p, cents) ==
    LET new_pitch_class == p.pitch_class + cents
        octave_difference == new_pitch_class \div CentsPerOctave
    IN [pitch_class_setter(p, new_pitch_class % CentsPerOctave)
           EXCEPT !.octave = p.octave + octave_difference]

\* EqualDividedOctavePitch.subtract(pitch_interval) of the base class.
EqualDividedOctavePitch_subtract(p, cents) == EqualDividedOctavePitch_add(p, -cents)

(***************************************************************************)
(* WesternPitch.add and WesternPitch.subtract.                             *)
(***************************************************************************)
\* _parse_pitch_interval converting every real number.
parse_pitch_interval_always(pitch_interval) ==
    IF pitch_interval.kind = "str"
    THEN [convert |-> TRUE, pitch_interval |-> pitch_interval]
    ELSE IF pitch_interval.kind = "real"
    THEN [convert |-> TRUE, pitch_interval |-> pitch_interval]
    ELSE [convert |-> FALSE, pitch_interval |-> pitch_interval]

\* WesternPitch._parse_pitch_interval(pitch_interval): whether the argument
\* is handed to WesternPitchInterval(...); 0.001 is UnitsPerSemitone / 1000.
parse_pitch_interval(pitch_interval) ==
    IF pitch_interval.kind = "str"
    THEN [convert |-> TRUE, pitch_interval |-> pitch_interval]
    ELSE IF pitch_interval.kind = "real"
    THEN [convert |->
              1000 * Abs(round(pitch_interval.n) * UnitsPerSemitone - pitch_interval.n)
                 < UnitsPerSemitone,
          pitch_interval |-> pitch_interval]
    ELSE [convert |-> FALSE, pitch_interval |-> pitch_interval]

\* WesternPitch._western_pitch_interval_to_operator(interval)(a, b)
western_pitch_interval_to_operator(i, a, b) == IF i.falling THEN a - b ELSE a + b

\* _get_new_diatonic_pitch_class_name_and_octave_count with the division of C.
get_new_diatonic_pitch_class_name_and_octave_count_truncating(p, i) ==
    LET diatonic_pitch_class_index ==
            index(ASCENDING_DIATONIC_PITCH_NAME_TUPLE, diatonic_pitch_class_name(p))
        diatonic_pitch_class_difference == i.n - 1
        absolute_new_diatonic_pitch_class_index ==
            western_pitch_interval_to_operator(
                i, diatonic_pitch_class_index, diatonic_pitch_class_difference)
        octave_count ==
            TruncDiv(absolute_new_diatonic_pitch_class_index, DIATONIC_PITCH_CLASS_COUNT)
        new_diatonic_pitch_class_index ==
            (absolute_new_diatonic_pitch_class_index
             - octave_count * DIATONIC_PITCH_CLASS_COUNT) % DIATONIC_PITCH_CLASS_COUNT
    IN [name |-> ASCENDING_DIATONIC_PITCH_NAME_TUPLE[new_diatonic_pitch_class_index + 1],
        octave_count |-> octave_count]

\* _get_new_diatonic_pitch_class_name_and_octave_count stepping upwards
\* whatever the direction of the interval.
get_new_diatonic_pitch_class_name_and_octave_count_rising(p, i) ==
    LET diatonic_pitch_class_index ==
            index(ASCENDING_DIATONIC_PITCH_NAME_TUPLE, diatonic_pitch_class_name(p))
        absolute_new_diatonic_pitch_class_index ==
            diatonic_pitch_class_index + (i.n - 1)
    IN [name |-> ASCENDING_DIATONIC_PITCH_NAME_TUPLE[
                     (absolute_new_diatonic_pitch_class_index
                      % DIATONIC_PITCH_CLASS_COUNT) + 1],
        octave_count |->
            absolute_new_diatonic_pitch_class_index \div DIATONIC_PITCH_CLASS_COUNT]

\* WesternPitch._get_new_diatonic_pitch_class_name_and_octave_count(interval)
get_new_diatonic_pitch_class_name_and_octave_count(p, i) ==
    LET diatonic_pitch_class_index ==
            index(ASCENDING_DIATONIC_PITCH_NAME_TUPLE, diatonic_pitch_class_name(p))
        diatonic_pitch_class_difference == i.n - 1
        absolute_new_diatonic_pitch_class_index ==
            western_pitch_interval_to_operator(
                i, diatonic_pitch_class_index, diatonic_pitch_class_difference)
        new_diatonic_pitch_class_index ==
            absolute_new_diatonic_pitch_class_index % DIATONIC_PITCH_CLASS_COUNT
        octave_count ==
            absolute_new_diatonic_pitch_class_index \div DIATONIC_PITCH_CLASS_COUNT
    IN [name |-> ASCENDING_DIATONIC_PITCH_NAME_TUPLE[new_diatonic_pitch_class_index + 1],
        octave_count |-> octave_count]

\* _get_new_pitch_class_modification with the key never reversed.
get_new_pitch_class_modification_unreversed(p, i, new_diatonic_pitch_class_name) ==
    LET key == <<diatonic_pitch_class_name(p), new_diatonic_pitch_class_name>>
        added_cent_deviation ==
            i.dev + DIATONIC_PITCH_CLASS_NAME_PAIR_TO_COMPENSATION_IN_CENTS_DICT[key]
    IN western_pitch_interval_to_operator(
           i, DictGet(ACCIDENTAL_NAME_TO_PITCH_CLASS_MODIFICATION_DICT, accidental_name(p)),
           added_cent_deviation)

\* WesternPitch._get_new_pitch_class_modification(interval, new name), in
\* cents: Fraction(int(added_cent_deviation), 100) semitones.
get_new_pitch_class_modification(p, i, new_diatonic_pitch_class_name) ==
    LET pair == <<diatonic_pitch_class_name(p), new_diatonic_pitch_class_name>>
        key == IF i.falling THEN <<pair[2], pair[1]>> ELSE pair
        added_cent_deviation ==
            i.dev + DIATONIC_PITCH_CLASS_NAME_PAIR_TO_COMPENSATION_IN_CENTS_DICT[key]
    IN western_pitch_interval_to_operator(
           i, DictGet(ACCIDENTAL_NAME_TO_PITCH_CLASS_MODIFICATION_DICT, accidental_name(p)),
           added_cent_deviation)

\* What one call did to the pitch it acted on.
Outcome(p, parsed, path, warned, error) ==
    [pitch |-> p, parsed |-> parsed, path |-> path, warned |-> warned,
     error |-> error]

\* _add_western_pitch_interval with the KeyError of the accidental lookup
\* left to propagate.
add_western_pitch_interval_raising(p, i) ==
    LET new == get_new_diatonic_pitch_class_name_and_octave_count(p, i)
        new_pitch_class_modification ==
            get_new_pitch_class_modification(p, i, new.name)
    IN IF ~DictHas(PITCH_CLASS_MODIFICATION_TO_ACCIDENTAL_NAME_DICT,
                   new_pitch_class_modification)
       THEN Outcome(p, i, "fallback", FALSE, "KeyError")
       ELSE LET new_accidental_name ==
                    DictGet(PITCH_CLASS_MODIFICATION_TO_ACCIDENTAL_NAME_DICT,
                            new_pitch_class_modification)
                set == pitch_class_name_setter(p, <<new.name>> \o new_accidental_name)
            IN Outcome([set.pitch EXCEPT !.octave = p.octave + new.octave_count],
                       i, "diatonic", FALSE, set.error)

\* WesternPitch._add_western_pitch_interval(western_pitch_interval_to_add)
add_western_pitch_interval(p, i) ==
    LET new == get_new_diatonic_pitch_class_name_and_octave_count(p, i)
        new_pitch_class_modification ==
            get_new_pitch_class_modification(p, i, new.name)
    IN IF ~DictHas(PITCH_CLASS_MODIFICATION_TO_ACCIDENTAL_NAME_DICT,
                   new_pitch_class_modification)
       THEN \* except KeyError: warnings.warn(...); return super().add(...)
            Outcome(EqualDividedOctavePitch_add(p, interval(i)),
                    i, "fallback", TRUE, "")
       ELSE LET new_accidental_name ==
                    DictGet(PITCH_CLASS_MODIFICATION_TO_ACCIDENTAL_NAME_DICT,
                            new_pitch_class_modification)
                set == pitch_class_name_setter(p, <<new.name>> \o new_accidental_name)
            IN Outcome([set.pitch EXCEPT !.octave = p.octave + new.octave_count],
                       i, "diatonic", FALSE, set.error)

\* A real number of semitones in cents.
Cents(units) == (units * CentsPerSemitone) \div UnitsPerSemitone

\* The body of WesternPitch.add: the outcomes it may have on the pitch p.
add_body(p, pitch_interval) ==
    LET parsed == parse_pitch_interval(pitch_interval) IN
    IF parsed.convert
    THEN IF WesternPitchInterval(pitch_interval) = {}
         THEN {Outcome(p, pitch_interval, "-", FALSE, "WesternPitchInterval")}
         ELSE {add_western_pitch_interval(p, i) : i \in WesternPitchInterval(pitch_interval)}
    ELSE IF pitch_interval.kind = "interval"
    THEN {add_western_pitch_interval(p, pitch_interval)}
    ELSE {Outcome(EqualDividedOctavePitch_add(p, Cents(pitch_interval.n)),
                  pitch_interval, "numeric", FALSE, "")}

\* The body of WesternPitch.subtract.
subtract_body(p, pitch_interval) ==
    LET parsed == parse_pitch_interval(pitch_interval) IN
    IF parsed.convert
    THEN IF WesternPitchInterval(pitch_interval) = {}
         THEN {Outcome(p, pitch_interval, "-", FALSE, "WesternPitchInterval")}
         ELSE {[add_western_pitch_interval(p, inverse_direction(i)) EXCEPT !.parsed = i] :
                  i \in WesternPitchInterval(pitch_interval)}
    ELSE IF pitch_interval.kind = "interval"
    THEN {[add_western_pitch_interval(p, inverse_direction(pitch_interval))
              EXCEPT !.parsed = pitch_interval]}
    ELSE {Outcome(EqualDividedOctavePitch_subtract(p, Cents(pitch_interval.n)),
                  pitch_interval, "numeric", FALSE, "")}

\* core_utilities.add_copy_option(function): with mutate the function acts on
\* the object and the object is returned, without it the function acts on a
\* deep copy and the copy is returned.  outcomes are the outcomes of the
\* function on a pitch in the state of self; an exception leaves no result.
add_copy_option(outcomes, ps, self, mutate) ==
    IF mutate
    THEN {[pitches |-> IF o.error = "" THEN [ps EXCEPT ![self] = o.pitch] ELSE ps,
           ret |-> IF o.error = "" THEN self ELSE 0,
           outcome |-> o] : o \in outcomes}
    ELSE {[pitches |-> IF o.error = "" THEN Append(ps, o.pitch) ELSE ps,
           ret |-> IF o.error = "" THEN Len(ps) + 1 ELSE 0,
           outcome |-> o] : o \in outcomes}

\* WesternPitch.add acting on the receiver whatever mutate says.
add_in_place(ps, self, pitch_interval, mutate) ==
    add_copy_option(add_body(ps[self], pitch_interval), ps, self, TRUE)

\* @core_utilities.add_copy_option WesternPitch.add(pitch_interval, mutate)
add(ps, self, pitch_interval, mutate) ==
    add_copy_option(add_body(ps[self], pitch_interval), ps, self, mutate)

\* @core_utilities.add_copy_option WesternPitch.subtract(pitch_interval, mutate)
subtract(ps, self, pitch_interval, mutate) ==
    add_copy_option(subtract_body(ps[self], pitch_interval), ps, self, mutate)

\* EqualDividedOctavePitch.__eq__ of the base class: the same pitch class in
\* the same octave.
pitch_eq(p, q) == p.pitch_class = q.pitch_class /\ p.octave = q.octave

(***************************************************************************)
(* The state machine of WesternPitch objects.  One behaviour starts with   *)
(* one constructed pitch and one argument, and applies the operations that *)
(* take such an argument.                                                  *)
(***************************************************************************)
\* Number of operations applied to the pitches in one behaviour.
MaxPitchOps == 2

\* The default octave of WesternPitch, and another one.
DefaultOctave == 4

OtherOctave == 2

\* MIDI pitch numbers tried: this many below 0 and up to this one.
MidiBelowZero == 13

MaxMidiPitchNumber == 72

MidiInputs == (-MidiBelowZero)..MaxMidiPitchNumber

\* Real numbers of semitones tried, in units: 2.0, 1.0005, 2.9995, -1.0 and
\* -3.0005 are closer than 0.001 to an integer, 0.5, 1.5, 2.5, 1.01 and
\* -0.25 are not.
RealInputs ==
    {20000, 10005, 29995, -10000, -30005, 5000, 15000, 25000, 10100, -2500}

\* Strings tried: three interval names and a decimal number.
StringInputs ==
    {<<"M", "3">>, <<"m", "3">>, <<"p", "5">>, <<"1", ".", "5">>}

IntervalArguments ==
    Intervals \cup {RealArg(x) : x \in RealInputs}
              \cup {StrArg(x) : x \in StringInputs}

\* Pitch class numbers tried: the quarter tones, and one number between two.
PitchNumberInputs == {x \in NumberInputs : x % (CentsPerSemitone \div 2) = 0 \/ x = 25}

PitchArguments ==
    {NameArg(x) : x \in NameInputs} \cup {NumberArg(x) : x \in PitchNumberInputs}

Arguments ==
    IntervalArguments \cup PitchArguments \cup {MidiArg(x) : x \in MidiInputs}

Previous == [op |-> pLast.op, recv |-> pLast.recv, ret |-> pLast.ret,
             before |-> pLast.before, path |-> pLast.path]

InitPitch ==
    /\ heap = SecondPlayingConstructed.heap
    /\ pic = PlayingConstructed.coll
    /\ nic = NotationConstructed.coll
    /\ pic2 = SecondPlayingConstructed.coll
    /\ last = NoOp
    /\ nOps = 0
    /\ cIn = NoInput /\ cOut = NoOutput /\ cPhase = "idle"
    /\ cTie \in {"lower", "upper"}
    /\ \E x \in PitchArguments :
          /\ WesternPitch(x, DefaultOctave).error = ""
          /\ pitches = <<WesternPitch(x, DefaultOctave).pitch>>
    /\ pArg \in Arguments
    /\ pLast = NoPitchOp
    /\ pOps = 0

\* WesternPitch(pArg, octave)
Construct ==
    /\ pOps < MaxPitchOps
    /\ pArg.kind \in {"name", "number"}
    /\ \E octave \in {DefaultOctave, OtherOctave} :
          LET r == WesternPitch(pArg, octave) IN
          /\ pitches' = IF r.error = "" THEN Append(pitches, r.pitch) ELSE pitches
          /\ pLast' = [op |-> "construct", recv |-> 0,
                       ret |-> IF r.error = "" THEN Len(pitches) + 1 ELSE 0,
                       mutate |-> FALSE, before |-> NoPitch, parsed |-> pArg,
                       path |-> "-", warned |-> FALSE, error |-> r.error,
                       octave |-> octave, prev |-> Previous]
    /\ pOps' = pOps + 1
    /\ UNCHANGED <<indicatorVars, codecVars, pArg>>

\* WesternPitch.from_midi_pitch_number(pArg)
FromMidiPitchNumber ==
    /\ pOps < MaxPitchOps
    /\ pArg.kind = "midi"
    /\ LET r == from_midi_pitch_number(pArg.n) IN
       /\ pitches' = IF r.error = "" THEN Append(pitches, r.pitch) ELSE pitches
       /\ pLast' = [op |-> "from_midi_pitch_number", recv |-> 0,
                    ret |-> IF r.error = "" THEN Len(pitches) + 1 ELSE 0,
                    mutate |-> FALSE, before |-> NoPitch, parsed |-> pArg,
                    path |-> "-", warned |-> FALSE, error |-> r.error,
                    octave |-> 0, prev |-> Previous]
    /\ pOps' = pOps + 1
    /\ UNCHANGED <<indicatorVars, codecVars, pArg>>

\* pitch.pitch_class_name = pArg
SetPitchClassName ==
    /\ pOps < MaxPitchOps
    /\ pArg.kind = "name"
    /\ \E self \in DOMAIN pitches :
          LET r == pitch_class_name_setter(pitches[self], pArg.name) IN
          /\ pitches' = [pitches EXCEPT ![self] = r.pitch]
          /\ pLast' = [op |-> "set_pitch_class_name", recv |-> self, ret |-> 0,
                       mutate |-> TRUE, before |-> pitches[self], parsed |-> pArg,
                       path |-> "-", warned |-> FALSE, error |-> r.error,
                       octave |-> 0, prev |-> Previous]
    /\ pOps' = pOps + 1
    /\ UNCHANGED <<indicatorVars, codecVars, pArg>>

\* pitch.pitch_class = pArg
SetPitchClass ==
    /\ pOps < MaxPitchOps
    /\ pArg.kind = "number"
    /\ \E self \in DOMAIN pitches :
          /\ pitches' = [pitches EXCEPT ![self] = pitch_class_setter(pitches[self], pArg.n)]
          /\ pLast' = [op |-> "set_pitch_class", recv |-> self, ret |-> 0,
                       mutate |-> TRUE, before |-> pitches[self], parsed |-> pArg,
                       path |-> "-", warned |-> FALSE, error |-> "",
                       octave |-> 0, prev |-> Previous]
    /\ pOps' = pOps + 1
    /\ UNCHANGED <<indicatorVars, codecVars, pArg>>

\* pitch.add(pArg, mutate=mutate)
Add ==
    /\ pOps < MaxPitchOps
    /\ pArg.kind \in {"interval", "real", "str"}
    /\ \E self \in DOMAIN pitches, mutate \in BOOLEAN :
          \E r \in add(pitches, self, pArg, mutate) :
             /\ pitches' = r.pitches
             /\ pLast' = [op |-> "add", recv |-> self, ret |-> r.ret,
                          mutate |-> mutate, before |-> pitches[self],
                          parsed |-> r.outcome.parsed, path |-> r.outcome.path,
                          warned |-> r.outcome.warned, error |-> r.outcome.error,
                          octave |-> 0, prev |-> Previous]
    /\ pOps' = pOps + 1
    /\ UNCHANGED <<indicatorVars, codecVars, pArg>>

\* pitch.subtract(pArg, mutate=mutate)
Subtract ==
    /\ pOps < MaxPitchOps
    /\ pArg.kind \in {"interval", "real", "str"}
    /\ \E self \in DOMAIN pitches, mutate \in BOOLEAN :
          \E r \in subtract(pitches, self, pArg, mutate) :
             /\ pitches' = r.pitches
             /\ pLast' = [op |-> "subtract", recv |-> self, ret |-> r.ret,
                          mutate |-> mutate, before |-> pitches[self],
                          parsed |-> r.outcome.parsed, path |-> r.outcome.path,
                          warned |-> r.outcome.warned, error |-> r.outcome.error,
                          octave |-> 0, prev |-> Previous]
    /\ pOps' = pOps + 1
    /\ UNCHANGED <<indicatorVars, codecVars, pArg>>

NextPitch ==
    Construct \/ FromMidiPitchNumber \/ SetPitchClassName \/ SetPitchClass
    \/ Add \/ Subtract

SpecPitch == InitPitch /\ [][NextPitch]_vars

(***************************************************************************)
(* Properties of WesternPitch objects.                                     *)
(***************************************************************************)
\* The pitch objects there are.
Pitches == {pitches[id] : id \in DOMAIN pitches}

\* C11 as stated: in every reachable state of every pitch, the name encodes
\* to the pitch class and the pitch class decodes to the name.
C11_NameNumberSync ==
    \A p \in Pitches :
       /\ pitch_class_name_to_pitch_class(p.pitch_class_name).number = p.pitch_class
       /\ pitch_class_to_pitch_class_name(p.pitch_class) = p.pitch_class_name

\* C11 amended: every pitch agrees with the codec in the direction it was
\* last set.  A pitch last set from a name (constructed from a name, its
\* pitch_class_name assigned, or an interval added diatonically) has the
\* pitch class its name encodes to; a pitch last set from a number
\* (constructed from a number, its pitch_class assigned, or an interval added
\* numerically) has the name its pitch class decodes to.
C11_SyncWithLastSetSide ==
    \A p \in Pitches :
       /\ p.by = "name" =>
             pitch_class_name_to_pitch_class(p.pitch_class_name).number = p.pitch_class
       /\ p.by = "number" =>
             pitch_class_to_pitch_class_name(p.pitch_class) = p.pitch_class_name

\* A pitch constructed from a number has had an interval added diatonically
\* in place, and its pitch class does not decode to its new name.
C11_Witness ==
    /\ pLast.op = "add" /\ pLast.path = "diatonic" /\ pLast.mutate
    /\ pLast.before.by = "number"
    /\ pitches[pLast.recv].by = "name"
    /\ pitch_class_to_pitch_class_name(pitches[pLast.recv].pitch_class)
          # pitches[pLast.recv].pitch_class_name

\* The position of the diatonic letter of a pitch in c d e f g a b, from 0.
LetterIndex(p) == index(ASCENDING_DIATONIC_PITCH_NAME_TUPLE, p.pitch_class_name[1])

\* The last call was pitch.add(interval) and took the diatonic path.
DiatonicAdd == pLast.op = "add" /\ pLast.path = "diatonic" /\ pLast.error = ""

\* C12: when add of a WesternPitchInterval of type t finds an accidental for
\* the computed modification, the resulting letter is the one t - 1 places
\* after the old letter (rising) or before it (falling), around the cycle of
\* the 7 letters.
C12_LetterStepping ==
    DiatonicAdd =>
       LET i == LetterIndex(pLast.before)
           t == pLast.parsed.n
       IN LetterIndex(pitches[pLast.ret]) =
             IF pLast.parsed.falling
             THEN (i - (t - 1)) % 7
             ELSE (i + (t - 1)) % 7

\* c4 plus a rising major third has given e in octave 4.
C12_Witness ==
    /\ DiatonicAdd
    /\ pLast.before.pitch_class_name = <<"c">> /\ pLast.before.octave = 4
    /\ pLast.parsed = IntervalArg(3, FALSE, 0)
    /\ pitches[pLast.ret].pitch_class_name = <<"e">>
    /\ pitches[pLast.ret].octave = 4

\* C13: on the diatonic path the octave changes by floor((i + (t - 1)) / 7)
\* for a rising and by floor((i - (t - 1)) / 7) for a falling interval of type
\* t added to a pitch whose letter has index i.
C13_OctaveCrossing ==
    DiatonicAdd =>
       LET i == LetterIndex(pLast.before)
           t == pLast.parsed.n
       IN pitches[pLast.ret].octave - pLast.before.octave =
             IF pLast.parsed.falling
             THEN (i - (t - 1)) \div 7
             ELSE (i + (t - 1)) \div 7

\* A falling second added to c4 has given b in octave 3.
C13_Witness ==
    /\ DiatonicAdd
    /\ pLast.before.pitch_class_name = <<"c">> /\ pLast.before.octave = 4
    /\ pLast.parsed.n = 2 /\ pLast.parsed.falling
    /\ pitches[pLast.ret].pitch_class_name[1] = "b"
    /\ pitches[pLast.ret].octave = 3

\* The last call was pitch.add(interval) with a WesternPitchInterval for
\* which the computed pitch class modification is no key of
\* PITCH_CLASS_MODIFICATION_TO_ACCIDENTAL_NAME_DICT.
AddWithoutAccidental ==
    /\ pLast.op = "add" /\ pLast.parsed.kind = "interval"
    /\ LET new == get_new_diatonic_pitch_class_name_and_octave_count(
                      pLast.before, pLast.parsed)
       IN ~DictHas(PITCH_CLASS_MODIFICATION_TO_ACCIDENTAL_NAME_DICT,
                   get_new_pitch_class_modification(pLast.before, pLast.parsed, new.name))

\* C14: when no accidental exists for the computed modification, add raises
\* nothing, warns, and leaves the pitch where the numeric addition of the
\* base class puts it: the pitch class moved by the size of the interval,
\* the octaves crossed added to octave, the name decoded from the pitch class.
C14_WarningFallback ==
    AddWithoutAccidental =>
       LET total == pLast.before.pitch_class + interval(pLast.parsed)
           new == pitches[pLast.ret]
       IN /\ pLast.error = ""
          /\ pLast.warned
          /\ new.pitch_class = total % CentsPerOctave
          /\ new.octave = pLast.before.octave + (total \div CentsPerOctave)
          /\ new.pitch_class_name = pitch_class_to_pitch_class_name(new.pitch_class)

\* An interval was added without an accidental for the result, and the
\* letter of the result is not the one the diatonic step leads to.
C14_Witness ==
    /\ AddWithoutAccidental
    /\ pLast.warned /\ pLast.error = ""
    /\ pitches[pLast.ret].pitch_class_name[1] #
          get_new_diatonic_pitch_class_name_and_octave_count(
              pLast.before, pLast.parsed).name

\* Whether a real number, in units, is closer than 0.001 to an integer.
NearInteger(units) ==
    LET r == units % UnitsPerSemitone IN
    1000 * r < UnitsPerSemitone \/ 1000 * (UnitsPerSemitone - r) < UnitsPerSemitone

\* The strings that spell a number, with the number in units.
NumericStrings == << [key |-> <<"1", ".", "5">>, value |-> 15000] >>

\* The last call was add or subtract.
AddOrSubtract == pLast.op \in {"add", "subtract"}

\* The pitch that the numeric addition or subtraction of the base class
\* makes of the receiver for a real argument.
NumericResult ==
    LET cents == Cents(pArg.n)
        total == IF pLast.op = "add"
                 THEN pLast.before.pitch_class + cents
                 ELSE pLast.before.pitch_class - cents
    IN [pitch_class |-> total % CentsPerOctave,
        octave |-> pLast.before.octave + (total \div CentsPerOctave)]

\* C15 as stated: a real number or a numeric string is made a
\* WesternPitchInterval only when it is closer than 0.001 to an integer, and
\* goes unchanged to the numeric addition or subtraction of the base class
\* otherwise.
C15_NumericOperands ==
    AddOrSubtract =>
       LET numeric == pArg.kind = "real"
                      \/ (pArg.kind = "str" /\ DictHas(NumericStrings, pArg.name))
           units == IF pArg.kind = "real" THEN pArg.n
                    ELSE DictGet(NumericStrings, pArg.name)
       IN numeric =>
             IF NearInteger(units)
             THEN pLast.parsed.kind = "interval"
             ELSE pLast.path = "numeric" /\ pLast.parsed = pArg

\* C15 amended: a real number is made a WesternPitchInterval exactly when it
\* is closer than 0.001 to an integer, and otherwise goes unchanged to the
\* numeric addition or subtraction of the base class; a string is always
\* handed to WesternPitchInterval, whatever it spells, and never reaches the
\* numeric path.
C15_RealsTestedStringsConverted ==
    AddOrSubtract =>
       /\ pArg.kind = "real" =>
             IF NearInteger(pArg.n)
             THEN pLast.parsed.kind = "interval" /\ pLast.path # "numeric"
             ELSE /\ pLast.path = "numeric" /\ pLast.parsed = pArg
                  /\ pLast.error = ""
                  /\ pitches[pLast.ret].pitch_class = NumericResult.pitch_class
                  /\ pitches[pLast.ret].octave = NumericResult.octave
       /\ pArg.kind = "str" =>
             /\ pLast.path # "numeric"
             /\ pLast.parsed.kind = "interval" \/ pLast.error = "WesternPitchInterval"

\* 1.0005 was added as an interval of one semitone.
C15_Witness ==
    /\ pLast.op = "add" /\ pArg = RealArg(10005)
    /\ pLast.parsed.kind = "interval"
    /\ interval(pLast.parsed) = CentsPerSemitone
    /\ pLast.path \in {"diatonic", "fallback"}

\* C16: add and subtract with mutate=False leave pitch class, name and octave
\* of the receiver as they were and return another object; with mutate=True
\* they return the receiver.  In both modes the object returned holds what
\* the operation makes of the receiver's former state, on every path.
C16_CopyMode ==
    (AddOrSubtract /\ pLast.error = "") =>
       /\ pitches[pLast.ret] \in
             {o.pitch : o \in IF pLast.op = "add"
                              THEN add_body(pLast.before, pArg)
                              ELSE subtract_body(pLast.before, pArg)}
       /\ IF pLast.mutate
          THEN pLast.ret = pLast.recv
          ELSE /\ pLast.ret # pLast.recv
               /\ pLast.ret = Len(pitches)
               /\ pitches[pLast.recv] = pLast.before

\* An interval was added with mutate=False on the fallback path: the
\* receiver is as before and the object returned differs from it.
C16_Witness ==
    /\ pLast.op = "add" /\ pLast.error = "" /\ ~pLast.mutate
    /\ pLast.path = "fallback"
    /\ pitches[pLast.recv] = pLast.before
    /\ pLast.ret # pLast.recv
    /\ pitches[pLast.ret] # pLast.before

\* The last call was WesternPitch.from_midi_pitch_number(n) and returned.
FromMidi == pLast.op = "from_midi_pitch_number" /\ pLast.error = ""

\* C17: from_midi_pitch_number(n) has pitch class (n - 12) mod 12 and octave
\* floor((n - 12) / 12), that is the one pitch class in [0, 12) and the one
\* octave with 12 * (octave + 1) + pitch class = n, below 12 as well; 60
\* gives c in octave 4.
C17_FromMidiPitchNumber ==
    FromMidi =>
       LET new == pitches[pLast.ret]
           n == pArg.n
       IN /\ new.pitch_class = ((n - 12) % 12) * CentsPerSemitone
          /\ (new.octave * 12) + ((n - 12) % 12) = n - 12
          /\ (12 * (new.octave + 1) * CentsPerSemitone) + new.pitch_class
                = n * CentsPerSemitone
          /\ new.pitch_class >= 0 /\ new.pitch_class < 12 * CentsPerSemitone
          /\ n = 60 => new.pitch_class_name = <<"c">> /\ new.octave = 4

\* from_midi_pitch_number(11): the pitch class b below octave 0.
C17_Witness ==
    /\ FromMidi /\ pArg.n = 11
    /\ pitches[pLast.ret].pitch_class = 11 * CentsPerSemitone
    /\ pitches[pLast.ret].pitch_class_name = <<"b">>
    /\ pitches[pLast.ret].octave = -1

\* The pitch class number the spec gives a name: the base offset of its
\* letter plus the offset of its accidental, in cents.
NumberOfName(name) ==
    CentsPerSemitone * DiatonicBaseOffset(Head(name))
    + DictGet(ACCIDENTAL_NAME_TO_PITCH_CLASS_MODIFICATION_DICT, Tail(name))

\* The first call of the behaviour was WesternPitch(pArg, octave) and
\* returned: there are the first pitch, as constructed, and the new one.
SecondConstructed ==
    pLast.op = "construct" /\ pLast.error = "" /\ pLast.prev.op = "init"

\* C18: a pitch constructed from a name is equal to the pitch constructed, in
\* the same octave, from the pitch class number of that name or from another
\* name of that number.
C18_EqualityAcrossConstruction ==
    (SecondConstructed /\ pitches[1].by = "name") =>
       LET number == IF pArg.kind = "number" THEN pArg.n ELSE NumberOfName(pArg.name)
       IN (/\ number = NumberOfName(pitches[1].pitch_class_name)
           /\ pLast.octave = pitches[1].octave)
          => pitch_eq(pitches[1], pitches[pLast.ret])

\* WesternPitch("aqs") and WesternPitch(9.5) of the same octave are equal.
C18_Witness ==
    /\ SecondConstructed
    /\ pitches[1].by = "name" /\ pitches[1].pitch_class_name = <<"a", "q", "s">>
    /\ pArg = NumberArg(950)
    /\ pLast.octave = pitches[1].octave
    /\ pitch_eq(pitches[1], pitches[pLast.ret])

(***************************************************************************)
(* The notation indicator collection under assignment.                     *)
(***************************************************************************)
\* C19: on a notation indicator collection every assignment to one of the
\* six slots raises FrozenInstanceError, for True and False as for any other
\* value, and changes neither a slot nor any indicator; an
\* assignment to a field of one of its indicators succeeds and stores the
\* value.
C19_NotationSlotsFrozen ==
    /\ (LastIs("setattr", "notation") /\ last.name \in NotationSlotNames) =>
          /\ last.result = "FrozenInstanceError"
          /\ \A slot \in NotationSlotNames : nic[slot] = NotationConstructed.coll[slot]
          /\ nOps = 1 => heap = SecondPlayingConstructed.heap
    /\ (LastIs("setfield", "notation") /\ last.field # "is_active") =>
          /\ last.result = "ok"
          /\ Obj(nic, last.name).fields[last.field] = last.value

\* notation_indicator_collection.clef = True raised and switched nothing.
C19_Witness ==
    /\ LastIs("setattr", "notation") /\ last.name = "clef"
    /\ last.value = BoolV(TRUE)
    /\ last.result = "FrozenInstanceError"
    /\ nOps = 1 /\ heap = SecondPlayingConstructed.heap
    /\ nic = NotationConstructed.coll

(***************************************************************************)
(* Addition and subtraction of one interval in turn.                       *)
(***************************************************************************)
\* An interval was added to a pitch and then subtracted from the result,
\* both on the diatonic path.
AddedThenSubtracted ==
    /\ pArg.kind \in {"interval", "str"}
    /\ pLast.op = "subtract" /\ pLast.path = "diatonic" /\ pLast.error = ""
    /\ pLast.prev.op = "add" /\ pLast.prev.path = "diatonic"
    /\ pLast.recv = pLast.prev.ret

\* C20: when p.add(i) and the subtract(i) that follows both take the
\* diatonic path, the pitch is back at the pitch class name and the octave p
\* had.
C20_AddSubtractRoundTrip ==
    AddedThenSubtracted =>
       /\ pitches[pLast.ret].pitch_class_name = pLast.prev.before.pitch_class_name
       /\ pitches[pLast.ret].octave = pLast.prev.before.octave

\* b4 plus a major second was cs5, and minus a major second is b4 again.
C20_Witness ==
    /\ AddedThenSubtracted
    /\ pArg = IntervalArg(2, FALSE, 0)
    /\ pLast.prev.before.pitch_class_name = <<"b">> /\ pLast.prev.before.octave = 4
    /\ pLast.before.pitch_class_name = <<"c", "s">> /\ pLast.before.octave = 5
    /\ pitches[pLast.ret].pitch_class_name = <<"b">>
    /\ pitches[pLast.ret].octave = 4

(***************************************************************************)
(* The height of a pitch under addition.                                   *)
(***************************************************************************)
\* The height of a pitch in cents: 12 * octave + pitch_class semitones.
Height(p) == (CentsPerOctave * p.octave) + p.pitch_class

\* C21: whenever add of a WesternPitchInterval takes the diatonic path, the
\* height of the result differs from the height of the pitch by the signed
\* size of the interval, as with the numeric addition of the base class.
C21_HeightAgreement ==
    DiatonicAdd =>
       Height(pitches[pLast.ret]) - Height(pLast.before) = interval(pLast.parsed)

(***************************************************************************)
(* The frame of an assignment to a slot of a playing indicator collection. *)
(***************************************************************************)
\* The indicators the slots of the three collections refer to, slot by slot.
SlotReferences ==
    [c \in {"playing", "notation", "second"} |->
        IF c = "playing" THEN [s \in PlayingSlotNames |-> pic[s]]
        ELSE IF c = "notation" THEN [s \in NotationSlotNames |-> nic[s]]
        ELSE [s \in PlayingSlotNames |-> pic2[s]]]

\* No indicator instance is referred to by two slots, of one collection or of
\* two.
DefaultsNotShared ==
    \A c1, c2 \in DOMAIN SlotReferences :
       \A s1 \in DOMAIN SlotReferences[c1], s2 \in DOMAIN SlotReferences[c2] :
          SlotReferences[c1][s1] = SlotReferences[c2][s2] => (c1 = c2 /\ s1 = s2)

\* This step is playing_indicator_collection.<slot> = value.
SlotAssignment ==
    /\ nOps' = nOps + 1
    /\ last'.op = "setattr" /\ last'.coll = "playing"
    /\ last'.name \in PlayingSlotNames

\* What the step leaves alone: the three attribute dictionaries, every
\* indicator of another slot or collection, and of the indicator of the slot
\* everything but is_active.
AssignmentFrame ==
    LET name == last'.name
        before == heap[pic[name].n]
        after == heap'[pic[name].n]
    IN /\ pic' = pic /\ nic' = nic /\ pic2' = pic2
       /\ DOMAIN heap' = DOMAIN heap
       /\ \A slot \in PlayingSlotNames \ {name} :
             heap'[pic[slot].n] = heap[pic[slot].n]
       /\ \A slot \in PlayingSlotNames : heap'[pic2[slot].n] = heap[pic2[slot].n]
       /\ \A slot \in NotationSlotNames : heap'[nic[slot].n] = heap[nic[slot].n]
       /\ after.cls = before.cls
       /\ DOMAIN after.fields = DOMAIN before.fields
       /\ \A f \in DOMAIN before.fields \ {"is_active"} :
             after.fields[f] = before.fields[f]
       /\ ~IsExplicit(before) => after = before
       /\ last'.result = "FrozenInstanceError" => heap' = heap

\* C22: an assignment to a slot of a playing indicator collection changes at
\* most the is_active flag of the explicit indicator of that slot; every
\* other slot's indicator and fields stay as they are, a failed assignment
\* changes nothing, no other collection is affected, and no indicator
\* instance is shared between slots or between collections.
C22_AssignmentFrame ==
    /\ []DefaultsNotShared
    /\ [][SlotAssignment => AssignmentFrame]_vars

\* glissando = True on a collection as constructed: the glissando of this
\* collection is active, every other indicator is as constructed.
C22_Witness ==
    /\ LastIs("setattr", "playing") /\ last.name = "glissando"
    /\ last.value = BoolV(TRUE) /\ last.result = "ok" /\ nOps = 1
    /\ IsActive(Obj(pic, "glissando"))
    /\ ~IsActive(Obj(pic2, "glissando"))
    /\ \A id \in DOMAIN heap \ {pic["glissando"].n} :
          heap[id] = SecondPlayingConstructed.heap[id]

====
